---- MODULE Spec2Model ----
(***************************************************************************)
(* Work-hours tracker (src/components/work-hours-tracker.tsx) on top of    *)
(* its IndexedDB layer (src/unnamed/part_001, imported as "@/lib/db").     *)
(*                                                                         *)
(* Representation                                                          *)
(*   - hoursWorked, totalHours are kept in hundredths of an hour (the code *)
(*     rounds every duration to 2 decimals), kilometers in km;             *)
(*   - a wall-clock string "HH:MM" is the tuple of its four digits;        *)
(*   - a location label is the tuple of its characters;                    *)
(*   - Date.now() / new Date() is `clock` (milliseconds, never 0); an ISO  *)
(*     timestamp is the millisecond count it round-trips to; null, and an  *)
(*     undefined id or date, are 0;                                        *)
(*   - an id is the number whose decimal string the code stores: ids are   *)
(*     only tested for being set, compared for equality and ordered as     *)
(*     object-store keys, and the decimal strings of timestamps of equal   *)
(*     length order as the numbers do;                                     *)
(*   - a Date used as an entry's date is a count of half-days: 2*d is      *)
(*     local midnight of day d (a calendar pick), 2*d+1 a later instant of *)
(*     day d (the `new Date()` the form starts with).                      *)
(* An async handler is a task: its position (pc) and the values its        *)
(* closure captured from the render in which the click happened.           *)
(***************************************************************************)
EXTENDS Integers, Sequences, FiniteSets, TLC

\* ---------------------------------------------------------------- bounds
MaxClock == 2
MaxDay == 2
MaxTasks == 2
MaxEntries == 2
MaxPeriods == 2
MaxSync == 1
MaxClicks == 3

\* ------------------------------------------------------------ input sets
Null == 0
HalfDays == 2
Today == 1
\* <input type="time"> values offered to the model
T0900 == <<0, 9, 0, 0>>
T0915 == <<0, 9, 1, 5>>
T1700 == <<1, 7, 0, 0>>
StartTimes == {T0900, T0915}
EndTimes == {T0900, T1700}
\* the two <SelectItem> values
Brakel18 == <<"B", "r", "a", "k", "e", "l", " ", "1", "8", "k", "m">>
Gent50 == <<"G", "e", "n", "t", " ", "5", "0", "k", "m">>
Locations == {Brakel18, Gent50}
\* useState(new Date()): an instant inside today
MountDate == Today * HalfDays + 1
\* Calendar onSelect: midnight of a day, or undefined when deselected
DateInputs == {Null, MountDate} \cup {d * HalfDays : d \in 1..MaxDay}
\* the form contents the model submits: the date with time and place for it
Forms ==
    {[date |-> d, startTime |-> T0900, endTime |-> T1700, location |-> Brakel18] :
        d \in {Null, MountDate}}
    \cup {[date |-> d * HalfDays, startTime |-> T0915, endTime |-> T1700,
           location |-> Gent50] : d \in 1..MaxDay}
    \cup {[date |-> MountDate, startTime |-> st, endTime |-> T0900,
           location |-> Gent50] : st \in StartTimes}

ErrNoDate == "Please select a date"
ErrEndTime == "End time must be after start time"
ErrSave == "Failed to save entry. Please try again."
ErrReset == "Failed to reset totals. Please try again."
ErrDelete == "Failed to delete entry. Please try again."
ErrDeletePeriod == "Failed to delete period. Please try again."
ErrInit == "Failed to initialize the application. Please refresh the page."

VARIABLES
    clock,            \* Date.now()
    online,           \* navigator.onLine
    entries,          \* useState<WorkEntry[]>
    previousPeriods,  \* useState<PeriodSummary[]>
    lastResetTime,    \* useState<string | null>
    totalHours,       \* useState(0)
    totalKilometers,  \* useState(0)
    error,            \* useState("")
    confirmed,        \* what the latest confirm() returned
    dbEntries,        \* object store "entries", keyPath id
    dbPeriods,        \* object store "periods", keyPath id
    dbSync,           \* object store "sync"
    dbLastReset,      \* object store "settings", key "lastReset"
    syncPending,      \* syncData() calls past their onLine test
    initPc,           \* position of initializeApp
    tasks,            \* handler invocations suspended at an await
    pending,          \* their slots, in the order their open requests were made
    clicks,           \* user actions so far in the session (exploration bound)
    request           \* the HTTP request the middleware is answering, if any

vars == <<clock, online, entries, previousPeriods, lastResetTime, totalHours,
          totalKilometers, error, confirmed, dbEntries, dbPeriods, dbSync,
          dbLastReset, syncPending, initPc, tasks, pending, clicks, request>>

reactState == <<entries, previousPeriods, lastResetTime, totalHours,
                totalKilometers, error>>
dbState == <<dbEntries, dbPeriods, dbSync, dbLastReset, syncPending>>
taskState == <<tasks, pending>>

\* the page is running and no request is at the middleware
NoRequest == [middleware |-> "none"]

\* ------------------------------------------------------------ pure parts
\* format(date, "yyyy-MM-dd") and format(date, "MMMM d, yyyy"): the day
FormatDay(d) == d \div HalfDays

\* format(now, "MMMM d, yyyy 'at' h:mm a"): the minute, here 2 ms long
FormatMinute(ms) == ms \div 2

\* "HH:MM".split(":").map(Number)
ParseTime(t) == <<10 * t[1] + t[2], 10 * t[3] + t[4]>>

\* (x / 60).toFixed(2) in hundredths, x in minutes: nearest, no ties occur
\* because x*100/60 has fractional part 0, 1/3 or 2/3
RoundHundredths(x) ==
    IF x >= 0 THEN (10 * x + 3) \div 6 ELSE -((10 * (-x) + 3) \div 6)

\* variant: a duration is never negative
calculateHoursClamped(start, end) ==
    LET s == ParseTime(start)
        e == ParseTime(end)
        x == (e[1] - s[1]) * 60 + (e[2] - s[2])
    IN  IF x < 0 THEN 0 ELSE RoundHundredths(x)

calculateHours(start, end) ==
    LET s == ParseTime(start)
        e == ParseTime(end)
        hours0 == e[1] - s[1]
        minutes0 == e[2] - s[2]
        hours == IF minutes0 < 0 THEN hours0 - 1 ELSE hours0
        minutes == IF minutes0 < 0 THEN minutes0 + 60 ELSE minutes0
    IN  RoundHundredths(hours * 60 + minutes)

\* String.prototype.includes
Includes(s, sub) ==
    \E i \in 0..(Len(s) - Len(sub)) :
        \A j \in 1..Len(sub) : s[i + j] = sub[j]

\* variant: only a label that begins with "Brakel" counts
getKilometersByPrefix(loc) ==
    IF Len(loc) >= 6 /\ SubSeq(loc, 1, 6) = <<"B", "r", "a", "k", "e", "l">>
    THEN 18 ELSE 50

getKilometers(loc) ==
    IF Includes(loc, <<"B", "r", "a", "k", "e", "l">>) THEN 18 ELSE 50

\* variant: the filter admits an entry added at the very instant of the reset
InCurrentPeriodInclusive(entry, reset) == reset = Null \/ entry.addedAt >= reset

\* entries.filter(e => !lastResetTime || addedAt > lastResetTime)
InCurrentPeriod(entry, reset) == reset = Null \/ entry.addedAt > reset

currentPeriodEntries(es, reset) ==
    SelectSeq(es, LAMBDA e : InCurrentPeriod(e, reset))

RECURSIVE ReduceHours(_)
ReduceHours(es) ==
    IF es = <<>> THEN 0 ELSE ReduceHours(SubSeq(es, 1, Len(es) - 1)) + es[Len(es)].hoursWorked

RECURSIVE ReduceKm(_)
ReduceKm(es) ==
    IF es = <<>> THEN 0 ELSE ReduceKm(SubSeq(es, 1, Len(es) - 1)) + es[Len(es)].kilometers

\* the totals useEffect
EffectHours(es, reset) == ReduceHours(currentPeriodEntries(es, reset))
EffectKm(es, reset) == ReduceKm(currentPeriodEntries(es, reset))

\* entries.sort((a, b) => b.date - a.date) in the render: stable, descending
RECURSIVE InsertDesc(_, _)
InsertDesc(sorted, e) ==
    IF sorted = <<>> THEN <<e>>
    ELSE IF sorted[Len(sorted)].date >= e.date THEN Append(sorted, e)
    ELSE Append(InsertDesc(SubSeq(sorted, 1, Len(sorted) - 1), e), sorted[Len(sorted)])

RECURSIVE RenderSort(_)
RenderSort(es) ==
    IF es = <<>> THEN <<>>
    ELSE InsertDesc(RenderSort(SubSeq(es, 1, Len(es) - 1)), es[Len(es)])

\* [...currentPeriodEntries].sort(...)[0].date, descending and ascending
RECURSIVE InsertAsc(_, _)
InsertAsc(sorted, e) ==
    IF sorted = <<>> THEN <<e>>
    ELSE IF sorted[Len(sorted)].date <= e.date THEN Append(sorted, e)
    ELSE Append(InsertAsc(SubSeq(sorted, 1, Len(sorted) - 1), e), sorted[Len(sorted)])

RECURSIVE SortAsc(_)
SortAsc(es) ==
    IF es = <<>> THEN <<>>
    ELSE InsertAsc(SortAsc(SubSeq(es, 1, Len(es) - 1)), es[Len(es)])

\* the label "No entries"; formatted days are the day numbers, all positive
NoEntries == Null
PeriodEndDate(cur) == IF Len(cur) > 0 THEN FormatDay(RenderSort(cur)[1].date) ELSE NoEntries
\* variant: the start is taken from the entry listed first
PeriodStartDateOfFirst(cur) == IF Len(cur) > 0 THEN FormatDay(cur[1].date) ELSE NoEntries

PeriodStartDate(cur) == IF Len(cur) > 0 THEN FormatDay(SortAsc(cur)[1].date) ELSE NoEntries

\* entries.findIndex(same formatted day); 0 when there is none
findIndex(es, date) ==
    IF \E i \in 1..Len(es) : FormatDay(es[i].date) = FormatDay(date)
    THEN CHOOSE i \in 1..Len(es) :
            /\ FormatDay(es[i].date) = FormatDay(date)
            /\ \A j \in 1..(i - 1) : FormatDay(es[j].date) # FormatDay(date)
    ELSE 0

\* ------------------------------------------------------- object stores
\* db.put on a keyPath-id store: replaces the record with the same key
DbPut(store, rec) == {r \in store : r.id # rec.id} \cup {rec}
DbDelete(store, id) == {r \in store : r.id # id}

\* db.getAll: the records in key order
RECURSIVE DbGetAll(_)
DbGetAll(store) ==
    IF store = {} THEN <<>>
    ELSE LET m == CHOOSE r \in store : \A q \in store : r.id <= q.id
         IN  <<m>> \o DbGetAll(store \ {m})

\* ---------------------------------------------------------------- tasks
NoEntry == [id |-> Null, date |-> Null, startTime |-> <<>>, endTime |-> <<>>,
            hoursWorked |-> 0, location |-> <<>>, kilometers |-> 0, addedAt |-> Null]
NoSummary == [id |-> Null, startDate |-> NoEntries, endDate |-> NoEntries,
              resetDate |-> Null, totalHours |-> 0, totalKilometers |-> 0]
NoForm == [date |-> Null, startTime |-> <<>>, endTime |-> <<>>, location |-> <<>>]

\* a free slot; of a running handler: where it is suspended (pc) and what its
\* closure and locals hold
Idle == [kind |-> "idle", pc |-> "idle", entries |-> <<>>, previousPeriods |-> <<>>,
         form |-> NoForm, entry |-> NoEntry, existingEntryIndex |-> 0, id |-> Null,
         summary |-> NoSummary, resetTime |-> Null]

TaskIds == 1..MaxTasks
FreeSlot == CHOOSE t \in TaskIds : tasks[t] = Idle /\ \A u \in 1..(t - 1) : tasks[u] # Idle
HasFreeSlot == \E t \in TaskIds : tasks[t] = Idle

\* a user action: a click on a button of the page, or a reload
Click == clicks < MaxClicks /\ clicks' = clicks + 1

\* the object store the request a task is suspended on goes to
StoreOf(pc) ==
    CASE pc \in {"saveEntry", "deleteEntry"} -> "entries"
      [] pc \in {"savePeriodSummary", "deletePeriodSummary"} -> "periods"
      [] pc = "saveLastResetTime" -> "settings"
      [] OTHER -> "none"

Without(q, t) == SelectSeq(q, LAMBDA u : u # t)

\* readwrite transactions on one object store run in the order of their
\* creation: a request settles once none made earlier for its store is open
CanSettle(t) ==
    \A k \in 1..Len(pending) :
        pending[k] = t \/
        (\E j \in 1..(k - 1) : pending[j] = t) \/
        StoreOf(tasks[pending[k]].pc) # StoreOf(tasks[t].pc)

\* a handler reaches its first await
Start(task) ==
    /\ tasks' = [tasks EXCEPT ![FreeSlot] = task]
    /\ pending' = Append(pending, FreeSlot)

\* a handler returns
Finish(t) ==
    /\ tasks' = [tasks EXCEPT ![t] = Idle]
    /\ pending' = Without(pending, t)

\* a handler goes on to its next await
Continue(t, pc) ==
    /\ tasks' = [tasks EXCEPT ![t].pc = pc]
    /\ pending' = Append(Without(pending, t), t)

\* ----------------------------------------------------------------- Init
Init ==
    /\ request = NoRequest
    /\ clock = 1
    /\ online = TRUE
    /\ entries = <<>>
    /\ previousPeriods = <<>>
    /\ lastResetTime = Null
    /\ totalHours = 0
    /\ totalKilometers = 0
    /\ error = ""
    /\ confirmed = "none"
    /\ dbEntries = {}
    /\ dbPeriods = {}
    /\ dbSync = <<>>
    /\ dbLastReset = Null
    /\ syncPending = 0
    /\ initPc = "entries"
    /\ tasks = [t \in TaskIds |-> Idle]
    /\ pending = <<>>
    /\ clicks = 0

\* setEntries(es) followed by the render's sort and the totals effect
SetEntries(es) ==
    /\ entries' = RenderSort(es)
    /\ totalHours' = EffectHours(es, lastResetTime)
    /\ totalKilometers' = EffectKm(es, lastResetTime)

\* variant: the totals effect does not list lastResetTime among its dependencies
SetLastResetTimeWithoutEffect(ts) ==
    /\ lastResetTime' = ts
    /\ UNCHANGED <<totalHours, totalKilometers>>

\* setLastResetTime(ts) followed by the totals effect
SetLastResetTime(ts) ==
    /\ lastResetTime' = ts
    /\ totalHours' = EffectHours(entries, ts)
    /\ totalKilometers' = EffectKm(entries, ts)

\* ------------------------------------------------------ the environment
Tick ==
    /\ clock < MaxClock
    /\ clock' = clock + 1
    /\ UNCHANGED <<request, online, reactState, confirmed, dbState, initPc, taskState,
                   clicks>>

GoOffline ==
    /\ online
    /\ online' = FALSE
    /\ UNCHANGED <<request, clock, reactState, confirmed, dbState, initPc, taskState, clicks>>

\* the "online" listener of registerNetworkListeners calls syncData()
GoOnline ==
    /\ ~online
    /\ online' = TRUE
    /\ IF initPc = "done"
       THEN /\ syncPending < MaxSync
            /\ syncPending' = syncPending + 1
       ELSE UNCHANGED syncPending
    /\ UNCHANGED <<request, clock, reactState, confirmed, dbEntries, dbPeriods, dbSync,
                   dbLastReset, initPc, taskState, clicks>>

\* a syncData pass: getAll("sync"), then delete what it read
SyncData ==
    /\ syncPending > 0
    /\ syncPending' = syncPending - 1
    /\ dbSync' = <<>>
    /\ UNCHANGED <<request, clock, online, reactState, confirmed, dbEntries, dbPeriods,
                   dbLastReset, initPc, taskState, clicks>>

\* ------------------------------------------------------- initializeApp
\* getAllEntries(); if (savedEntries.length > 0) setEntries(savedEntries)
LoadEntries ==
    /\ initPc = "entries"
    /\ initPc' = "periods"
    /\ IF dbEntries # {}
       THEN SetEntries(DbGetAll(dbEntries))
       ELSE UNCHANGED <<entries, totalHours, totalKilometers>>
    /\ UNCHANGED <<request, clock, online, previousPeriods, lastResetTime, error, confirmed,
                   dbState, taskState, clicks>>

\* getAllPeriodSummaries(); if (savedPeriods.length > 0) setPreviousPeriods(...)
LoadPeriods ==
    /\ initPc = "periods"
    /\ initPc' = "lastReset"
    /\ previousPeriods' = IF dbPeriods # {} THEN DbGetAll(dbPeriods) ELSE previousPeriods
    /\ UNCHANGED <<request, clock, online, entries, lastResetTime, totalHours, totalKilometers,
                   error, confirmed, dbState, taskState, clicks>>

\* getLastResetTime() (null when its read throws), then the listeners
LoadLastReset(ok) ==
    /\ initPc = "lastReset"
    /\ initPc' = "done"
    /\ IF ok /\ dbLastReset # Null
       THEN SetLastResetTime(dbLastReset)
       ELSE UNCHANGED <<lastResetTime, totalHours, totalKilometers>>
    /\ UNCHANGED <<request, clock, online, entries, previousPeriods, error, confirmed,
                   dbState, taskState, clicks>>

\* initDB(), getAllEntries() or getAllPeriodSummaries() rejects
InitFail ==
    /\ initPc \in {"entries", "periods"}
    /\ initPc' = "failed"
    /\ error' = ErrInit
    /\ UNCHANGED <<request, clock, online, entries, previousPeriods, lastResetTime, totalHours,
                   totalKilometers, confirmed, dbState, taskState, clicks>>

\* the page is loaded again: the component mounts afresh, the stores stay
Reload ==
    /\ Click
    /\ entries' = <<>>
    /\ previousPeriods' = <<>>
    /\ lastResetTime' = Null
    /\ totalHours' = 0
    /\ totalKilometers' = 0
    /\ error' = ""
    /\ confirmed' = "none"
    /\ syncPending' = 0
    /\ initPc' = "entries"
    /\ tasks' = [t \in TaskIds |-> Idle]
    /\ pending' = <<>>
    /\ UNCHANGED <<request, clock, online, dbEntries, dbPeriods, dbSync, dbLastReset>>

\* ------------------------------------------------------ handleAddEntry
\* variant: only a negative duration is refused
Negative(hoursWorked) == hoursWorked < 0

\* if (hoursWorked <= 0) { setError(...); return }
NonPositive(hoursWorked) == hoursWorked <= 0

\* variant: the update stamps the entry with the time of the edit
UpdatedEntryStamped(existing, date, startTime, endTime, hoursWorked, location, kilometers) ==
    [existing EXCEPT !.date = date, !.startTime = startTime, !.endTime = endTime,
                     !.hoursWorked = hoursWorked, !.location = location,
                     !.kilometers = kilometers, !.addedAt = clock]

\* variant: the update builds a fresh object and forgets the existing id
UpdatedEntryWithoutId(existing, date, startTime, endTime, hoursWorked, location, kilometers) ==
    [id |-> Null, date |-> date, startTime |-> startTime, endTime |-> endTime,
     hoursWorked |-> hoursWorked, location |-> location, kilometers |-> kilometers,
     addedAt |-> existing.addedAt]

\* { ...entries[existingEntryIndex], date, startTime, endTime, hoursWorked,
\*   location, kilometers }
UpdatedEntry(existing, date, startTime, endTime, hoursWorked, location, kilometers) ==
    [existing EXCEPT !.date = date, !.startTime = startTime, !.endTime = endTime,
                     !.hoursWorked = hoursWorked, !.location = location,
                     !.kilometers = kilometers]

\* the entry of the else branch: no id yet, addedAt: now
NewEntry(date, startTime, endTime, hoursWorked, location, kilometers, now) ==
    [id |-> Null, date |-> date, startTime |-> startTime, endTime |-> endTime,
     hoursWorked |-> hoursWorked, location |-> location, kilometers |-> kilometers,
     addedAt |-> now]

\* the part up to the first await: validation and the entry to save
HandleAddEntry(date, startTime, endTime, location) ==
    LET hoursWorked == calculateHours(startTime, endTime)
        kilometers == getKilometers(location)
        now == clock
        existingEntryIndex == findIndex(entries, date)
    IN  /\ Click
        /\ IF date = Null
           THEN /\ error' = ErrNoDate
                /\ UNCHANGED <<entries, previousPeriods, lastResetTime, totalHours,
                               totalKilometers, taskState>>
           ELSE IF NonPositive(hoursWorked)
           THEN /\ error' = ErrEndTime
                /\ UNCHANGED <<entries, previousPeriods, lastResetTime, totalHours,
                               totalKilometers, taskState>>
           ELSE /\ HasFreeSlot
                /\ existingEntryIndex = 0 =>
                       Len(entries) < MaxEntries /\ Cardinality(dbEntries) < MaxEntries
                /\ Start([Idle EXCEPT
                       !.kind = "add", !.pc = "saveEntry", !.entries = entries,
                       !.form = [date |-> date, startTime |-> startTime,
                                 endTime |-> endTime, location |-> location],
                       !.existingEntryIndex = existingEntryIndex,
                       !.entry = IF existingEntryIndex > 0
                                 THEN UpdatedEntry(entries[existingEntryIndex], date,
                                                   startTime, endTime, hoursWorked,
                                                   location, kilometers)
                                 ELSE NewEntry(date, startTime, endTime, hoursWorked,
                                               location, kilometers, now)])
                /\ UNCHANGED reactState
        /\ UNCHANGED <<request, clock, online, confirmed, dbState, initPc>>

\* saveEntry: if (!entry.id) entry.id = Date.now().toString()
WithId(entry) == IF entry.id = Null THEN [entry EXCEPT !.id = clock] ELSE entry

\* the item saveEntry queues, built after the id was assigned
SaveSyncItem(entry) ==
    [action |-> IF entry.id # Null THEN "update" ELSE "add", id |-> entry.id,
     timestamp |-> clock]

\* saveEntry settles and handleAddEntry continues after its await.
\* outcome: "reject" (initDB or the put fails), "syncReject" (the put is done,
\* the add to the sync store fails), "ok"
SaveEntryDone(t, outcome) ==
    LET task == tasks[t]
        saved == WithId(task.entry)
    IN  /\ task.kind = "add"
        /\ task.pc = "saveEntry"
        /\ CanSettle(t)
        /\ outcome = "syncReject" => online
        /\ Finish(t)
        /\ dbEntries' = IF outcome = "reject" THEN dbEntries ELSE DbPut(dbEntries, saved)
        /\ IF outcome = "ok" /\ online
           THEN /\ syncPending < MaxSync
                /\ dbSync' = Append(dbSync, SaveSyncItem(saved))
                /\ syncPending' = syncPending + 1
           ELSE UNCHANGED <<dbSync, syncPending>>
        /\ IF outcome = "ok"
           THEN /\ SetEntries(IF task.existingEntryIndex > 0
                               THEN [task.entries EXCEPT ![task.existingEntryIndex] = saved]
                               ELSE Append(task.entries, saved))
                /\ error' = ""
           ELSE /\ error' = ErrSave
                /\ UNCHANGED <<entries, totalHours, totalKilometers>>
        /\ UNCHANGED <<request, clock, online, previousPeriods, lastResetTime, confirmed,
                       dbPeriods, dbLastReset, initPc, clicks>>

\* --------------------------------------------------- handleResetTotals
\* variant: the answer of the prompt is not looked at
ProceedsAlways(answer) == TRUE

\* if (confirm("Are you sure ...")) { ... }
Proceeds(answer) == answer

\* variant: a summary is written for an empty period too
HasHoursOrNone(hours) == hours >= 0

\* if (totalHours > 0) { await savePeriodSummary(...) ... }
HasHoursToReport(hours) == hours > 0

\* variant: with nothing to report the handler returns at once
FirstAwaitOrReturn(hours) ==
    IF HasHoursToReport(hours) THEN "savePeriodSummary" ELSE "returned"

\* the await the handler reaches first: savePeriodSummary inside the if,
\* otherwise saveLastResetTime
FirstAwait(hours) ==
    IF HasHoursToReport(hours) THEN "savePeriodSummary" ELSE "saveLastResetTime"

NewPeriodSummary(now, es, reset, hours, km) ==
    [id |-> now,
     startDate |-> PeriodStartDate(currentPeriodEntries(es, reset)),
     endDate |-> PeriodEndDate(currentPeriodEntries(es, reset)),
     resetDate |-> FormatMinute(now),
     totalHours |-> hours,
     totalKilometers |-> km]

\* confirm(...) and, when it returns true, the part up to the first await
HandleResetTotals(answer) ==
    LET now == clock
    IN  /\ Click
        /\ confirmed' = IF answer THEN "yes" ELSE "no"
        /\ IF Proceeds(answer)
           THEN /\ HasFreeSlot
                /\ HasHoursToReport(totalHours) => Len(previousPeriods) < MaxPeriods
                /\ Start([Idle EXCEPT
                       !.kind = "reset",
                       !.pc = FirstAwait(totalHours),
                       !.entries = entries,
                       !.previousPeriods = previousPeriods,
                       !.summary = NewPeriodSummary(now, entries, lastResetTime,
                                                    totalHours, totalKilometers),
                       !.resetTime = now])
           ELSE UNCHANGED taskState
        /\ UNCHANGED <<request, clock, online, reactState, dbState, initPc>>

\* variant: the rejection is swallowed and the handler goes on to the checkpoint
SavePeriodSummaryDoneSwallowing(t, ok) ==
    LET task == tasks[t]
    IN  /\ task.kind = "reset"
        /\ task.pc = "savePeriodSummary"
        /\ CanSettle(t)
        /\ Continue(t, "saveLastResetTime")
        /\ IF ok
           THEN /\ dbPeriods' = DbPut(dbPeriods, task.summary)
                /\ previousPeriods' = <<task.summary>> \o task.previousPeriods
           ELSE UNCHANGED <<dbPeriods, previousPeriods>>
        /\ UNCHANGED <<request, clock, online, entries, lastResetTime, totalHours,
                       totalKilometers, error, confirmed, dbEntries, dbSync,
                       dbLastReset, syncPending, initPc, clicks>>

\* await savePeriodSummary(newPeriodSummary); setPreviousPeriods([new, ...old])
SavePeriodSummaryDone(t, ok) ==
    LET task == tasks[t]
    IN  /\ task.kind = "reset"
        /\ task.pc = "savePeriodSummary"
        /\ CanSettle(t)
        /\ IF ok
           THEN /\ dbPeriods' = DbPut(dbPeriods, task.summary)
                /\ previousPeriods' = <<task.summary>> \o task.previousPeriods
                /\ Continue(t, "saveLastResetTime")
                /\ UNCHANGED error
           ELSE /\ error' = ErrReset
                /\ Finish(t)
                /\ UNCHANGED <<dbPeriods, previousPeriods>>
        /\ UNCHANGED <<request, clock, online, entries, lastResetTime, totalHours,
                       totalKilometers, confirmed, dbEntries, dbSync, dbLastReset,
                       syncPending, initPc, clicks>>

\* await saveLastResetTime(resetTime); setLastResetTime(resetTime)
SaveLastResetTimeDone(t, ok) ==
    LET task == tasks[t]
    IN  /\ task.kind = "reset"
        /\ task.pc = "saveLastResetTime"
        /\ CanSettle(t)
        /\ Finish(t)
        /\ IF ok
           THEN /\ dbLastReset' = task.resetTime
                /\ SetLastResetTime(task.resetTime)
                /\ UNCHANGED error
           ELSE /\ error' = ErrReset
                /\ UNCHANGED <<dbLastReset, lastResetTime, totalHours, totalKilometers>>
        /\ UNCHANGED <<request, clock, online, entries, previousPeriods, confirmed, dbEntries,
                       dbPeriods, dbSync, syncPending, initPc, clicks>>

\* --------------------------------------------------- handleDeleteEntry
\* onClick={() => handleDeleteEntry(entry.id || "")} of the i-th card
HandleDeleteEntry(i) ==
    /\ Click
    /\ i \in 1..Len(entries)
    /\ HasFreeSlot
    /\ Start([Idle EXCEPT !.kind = "delete", !.pc = "deleteEntry",
                          !.entries = entries, !.id = entries[i].id])
    /\ UNCHANGED <<request, clock, online, reactState, confirmed, dbState, initPc>>

\* variant: the list is updated before the outcome of deleteEntry is known
DeleteEntryDoneOptimistic(t, outcome) ==
    LET task == tasks[t]
    IN  /\ task.kind = "delete"
        /\ task.pc = "deleteEntry"
        /\ CanSettle(t)
        /\ outcome = "syncReject" => online
        /\ Finish(t)
        /\ dbEntries' = IF outcome = "reject" THEN dbEntries
                                              ELSE DbDelete(dbEntries, task.id)
        /\ IF outcome = "ok" /\ online
           THEN /\ syncPending < MaxSync
                /\ dbSync' = Append(dbSync, [action |-> "delete", id |-> task.id,
                                             timestamp |-> clock])
                /\ syncPending' = syncPending + 1
           ELSE UNCHANGED <<dbSync, syncPending>>
        /\ SetEntries(SelectSeq(task.entries, LAMBDA e : e.id # task.id))
        /\ error' = IF outcome = "ok" THEN error ELSE ErrDelete
        /\ UNCHANGED <<request, clock, online, previousPeriods, lastResetTime, confirmed,
                       dbPeriods, dbLastReset, initPc, clicks>>

\* deleteEntry settles; outcomes as for saveEntry
DeleteEntryDone(t, outcome) ==
    LET task == tasks[t]
    IN  /\ task.kind = "delete"
        /\ task.pc = "deleteEntry"
        /\ CanSettle(t)
        /\ outcome = "syncReject" => online
        /\ Finish(t)
        /\ dbEntries' = IF outcome = "reject" THEN dbEntries
                                              ELSE DbDelete(dbEntries, task.id)
        /\ IF outcome = "ok" /\ online
           THEN /\ syncPending < MaxSync
                /\ dbSync' = Append(dbSync, [action |-> "delete", id |-> task.id,
                                             timestamp |-> clock])
                /\ syncPending' = syncPending + 1
           ELSE UNCHANGED <<dbSync, syncPending>>
        /\ IF outcome = "ok"
           THEN /\ SetEntries(SelectSeq(task.entries, LAMBDA e : e.id # task.id))
                /\ UNCHANGED error
           ELSE /\ error' = ErrDelete
                /\ UNCHANGED <<entries, totalHours, totalKilometers>>
        /\ UNCHANGED <<request, clock, online, previousPeriods, lastResetTime, confirmed,
                       dbPeriods, dbLastReset, initPc, clicks>>

\* -------------------------------------------------- handleDeletePeriod
\* onClick={() => handleDeletePeriod(period.id)} of the i-th summary
HandleDeletePeriod(i, answer) ==
    /\ Click
    /\ i \in 1..Len(previousPeriods)
    /\ confirmed' = IF answer THEN "yes" ELSE "no"
    /\ IF answer
       THEN /\ HasFreeSlot
            /\ Start([Idle EXCEPT !.kind = "deletePeriod", !.pc = "deletePeriodSummary",
                                  !.previousPeriods = previousPeriods,
                                  !.id = previousPeriods[i].id])
       ELSE UNCHANGED taskState
    /\ UNCHANGED <<request, clock, online, reactState, dbState, initPc>>

\* variant: deleting a summary also forgets the checkpoint
DeletePeriodDoneReopening(t, ok) ==
    LET task == tasks[t]
    IN  /\ task.kind = "deletePeriod"
        /\ task.pc = "deletePeriodSummary"
        /\ CanSettle(t)
        /\ Finish(t)
        /\ IF ok
           THEN /\ dbPeriods' = DbDelete(dbPeriods, task.id)
                /\ previousPeriods' = SelectSeq(task.previousPeriods,
                                                LAMBDA p : p.id # task.id)
                /\ dbLastReset' = Null
                /\ SetLastResetTime(Null)
                /\ UNCHANGED error
           ELSE /\ error' = ErrDeletePeriod
                /\ UNCHANGED <<dbPeriods, previousPeriods, dbLastReset, lastResetTime,
                               totalHours, totalKilometers>>
        /\ UNCHANGED <<request, clock, online, entries, confirmed, dbEntries, dbSync,
                       syncPending, initPc, clicks>>

DeletePeriodDone(t, ok) ==
    LET task == tasks[t]
    IN  /\ task.kind = "deletePeriod"
        /\ task.pc = "deletePeriodSummary"
        /\ CanSettle(t)
        /\ Finish(t)
        /\ IF ok
           THEN /\ dbPeriods' = DbDelete(dbPeriods, task.id)
                /\ previousPeriods' = SelectSeq(task.previousPeriods,
                                                LAMBDA p : p.id # task.id)
                /\ UNCHANGED error
           ELSE /\ error' = ErrDeletePeriod
                /\ UNCHANGED <<dbPeriods, previousPeriods>>
        /\ UNCHANGED <<request, clock, online, entries, lastResetTime, totalHours,
                       totalKilometers, confirmed, dbEntries, dbSync, dbLastReset,
                       syncPending, initPc, clicks>>

\* ----------------------------------------------------------------- Next
Outcomes == {"reject", "syncReject", "ok"}

Next ==
    \/ Tick
    \/ GoOffline
    \/ GoOnline
    \/ SyncData
    \/ LoadEntries
    \/ LoadPeriods
    \/ \E ok \in BOOLEAN : LoadLastReset(ok)
    \/ InitFail
    \/ Reload
    \/ \E f \in Forms : HandleAddEntry(f.date, f.startTime, f.endTime, f.location)
    \/ \E t \in TaskIds, o \in Outcomes : SaveEntryDone(t, o)
    \/ \E a \in BOOLEAN : HandleResetTotals(a)
    \/ \E t \in TaskIds, ok \in BOOLEAN : SavePeriodSummaryDone(t, ok)
    \/ \E t \in TaskIds, ok \in BOOLEAN : SaveLastResetTimeDone(t, ok)
    \/ \E i \in 1..(MaxEntries + MaxTasks) : HandleDeleteEntry(i)
    \/ \E t \in TaskIds, o \in Outcomes : DeleteEntryDone(t, o)
    \/ \E i \in 1..MaxPeriods, a \in BOOLEAN : HandleDeletePeriod(i, a)
    \/ \E t \in TaskIds, ok \in BOOLEAN : DeletePeriodDone(t, ok)

Spec == Init /\ [][Next]_vars

\* What the event loop guarantees: a syncData call that has passed its
\* onLine test goes on to run, initializeApp's awaits settle, and so do the
\* requests of the handlers. Nothing obliges the user to click or the
\* network to change.
FairSpec ==
    /\ Spec
    /\ WF_vars(SyncData)
    /\ WF_vars(LoadEntries \/ LoadPeriods \/ InitFail
                  \/ \E ok \in BOOLEAN : LoadLastReset(ok))
    /\ WF_vars(\E t \in TaskIds :
                  \/ \E o \in Outcomes : SaveEntryDone(t, o) \/ DeleteEntryDone(t, o)
                  \/ \E ok \in BOOLEAN : \/ SavePeriodSummaryDone(t, ok)
                                          \/ SaveLastResetTimeDone(t, ok)
                                          \/ DeletePeriodDone(t, ok))

\* ------------------------------------------------- a later session
\* a reading of the clock during an earlier session (clock counts from the
\* start of the session the model follows)
Earlier == 0 - 1

\* what saveEntry stored in that session: 09:00-17:00 in Brakel, for today
StoredEntry ==
    [NewEntry(MountDate, T0900, T1700, calculateHours(T0900, T1700), Brakel18,
              getKilometers(Brakel18), Earlier) EXCEPT !.id = Earlier]

\* the page is opened with that entry in the entries store
InitStored ==
    /\ request = NoRequest
    /\ clock = 1
    /\ online = TRUE
    /\ entries = <<>>
    /\ previousPeriods = <<>>
    /\ lastResetTime = Null
    /\ totalHours = 0
    /\ totalKilometers = 0
    /\ error = ""
    /\ confirmed = "none"
    /\ dbEntries = {StoredEntry}
    /\ dbPeriods = {}
    /\ dbSync = <<>>
    /\ dbLastReset = Null
    /\ syncPending = 0
    /\ initPc = "entries"
    /\ tasks = [t \in TaskIds |-> Idle]
    /\ pending = <<>>
    /\ clicks = 0

SpecStored == InitStored /\ [][Next]_vars

\* ------------------------------------- the form, over its whole domain
\* <input type="time"> yields "HH:MM" with HH in 00..23 and MM in 00..59
MaxHour == 23
MaxMinute == 59
Minutes == {0, 1, 15, 30, 45, MaxMinute}
TimeOf(h, m) == <<h \div 10, h % 10, m \div 10, m % 10>>
\* every hour with some minutes, and every minute of the hours of 09:00, 17:00
TimeInputs ==
    {TimeOf(h, m) : h \in 0..MaxHour, m \in Minutes}
    \cup {TimeOf(10 * t[1] + t[2], m) : t \in {T0900, T1700}, m \in 0..MaxMinute}

\* labels a location string may hold, besides the two the Select offers
BrakelOther == <<"B", "r", "a", "k", "e", "l", "-", "O", "t", "h", "e", "r">>
OldBrakel == <<"O", "l", "d", " ", "B", "r", "a", "k", "e", "l">>
LowerBrakel == <<"b", "r", "a", "k", "e", "l">>
Brake == <<"B", "r", "a", "k", "e">>
LabelInputs == {Brakel18, Gent50, BrakelOther, OldBrakel, LowerBrakel, Brake, <<>>}

FormInputs ==
    {[date |-> MountDate, startTime |-> st, endTime |-> et, location |-> Brakel18] :
        st \in TimeInputs, et \in TimeInputs}
    \cup {[date |-> MountDate, startTime |-> T0900, endTime |-> T1700,
           location |-> l] : l \in LabelInputs}

\* handleAddEntry is entered with some form contents, over an empty list or
\* over the list that holds the entry stored for today
InitForm ==
    /\ request = NoRequest
    /\ clock = 1
    /\ online = TRUE
    /\ \E es \in {<<>>, <<StoredEntry>>} :
          /\ entries = es
          /\ totalHours = EffectHours(es, Null)
          /\ totalKilometers = EffectKm(es, Null)
          /\ dbEntries = {es[i] : i \in DOMAIN es}
          /\ \E f \in FormInputs :
                tasks = [t \in TaskIds |->
                           IF t = 1
                           THEN [Idle EXCEPT !.kind = "add", !.pc = "calculateHours",
                                             !.form = f, !.entries = es]
                           ELSE Idle]
    /\ previousPeriods = <<>>
    /\ lastResetTime = Null
    /\ error = ""
    /\ confirmed = "none"
    /\ dbPeriods = {}
    /\ dbSync = <<>>
    /\ dbLastReset = Null
    /\ syncPending = 0
    /\ initPc = "done"
    /\ pending = <<>>
    /\ clicks = 0

\* const hoursWorked = calculateHours(startTime, endTime);
\* const kilometers = getKilometers(location): the two locals, kept in the
\* task's entry
EvaluateForm(t) ==
    LET task == tasks[t]
    IN  /\ task.pc = "calculateHours"
        /\ tasks' = [tasks EXCEPT
               ![t].pc = "findIndex",
               ![t].entry = [NoEntry EXCEPT
                   !.hoursWorked = calculateHours(task.form.startTime, task.form.endTime),
                   !.kilometers = getKilometers(task.form.location)]]
        /\ UNCHANGED <<request, clock, online, reactState, confirmed, dbState, initPc, pending,
                       clicks>>

\* if (hoursWorked <= 0) { setError("End time must be after start time"); return }
RefuseForm(t) ==
    LET task == tasks[t]
    IN  /\ task.pc = "findIndex"
        /\ NonPositive(task.entry.hoursWorked)
        /\ error' = ErrEndTime
        /\ tasks' = [tasks EXCEPT ![t].pc = "returned"]
        /\ UNCHANGED <<request, clock, online, entries, previousPeriods, lastResetTime,
                       totalHours, totalKilometers, confirmed, dbState, initPc,
                       pending, clicks>>

\* findIndex, and the object of the branch taken: updatedEntry or newEntry
BuildEntry(t) ==
    LET task == tasks[t]
        f == task.form
        existingEntryIndex == findIndex(task.entries, f.date)
    IN  /\ task.pc = "findIndex"
        /\ ~NonPositive(task.entry.hoursWorked)
        /\ tasks' = [tasks EXCEPT
               ![t].pc = "built",
               ![t].existingEntryIndex = existingEntryIndex,
               ![t].entry =
                   IF existingEntryIndex > 0
                   THEN UpdatedEntry(task.entries[existingEntryIndex], f.date,
                                     f.startTime, f.endTime, task.entry.hoursWorked,
                                     f.location, task.entry.kilometers)
                   ELSE NewEntry(f.date, f.startTime, f.endTime,
                                 task.entry.hoursWorked, f.location,
                                 task.entry.kilometers, clock)]
        /\ UNCHANGED <<request, clock, online, reactState, confirmed, dbState, initPc, pending,
                       clicks>>

NextForm ==
    \/ \E t \in TaskIds : EvaluateForm(t)
    \/ \E t \in TaskIds : RefuseForm(t)
    \/ \E t \in TaskIds : BuildEntry(t)

SpecForm == InitForm /\ [][NextForm]_vars

\* ======================================================================
\* The middleware
\* ======================================================================
\* Two definitions of `middleware` are in the sources: the one of
\* src/middleware.ts, which knows the single public path /login, and one
\* that reads the environment itself and has a list of public routes.
\* A pathname is the tuple of its characters.
Root == <<"/">>
Login == <<"/", "l", "o", "g", "i", "n">>
LoginReset == <<"/", "l", "o", "g", "i", "n", "/", "r", "e", "s", "e", "t">>
TestConnection == <<"/", "t", "e", "s", "t", "-", "c", "o", "n", "n", "e", "c", "t", "i", "o", "n">>
AuthCallback == <<"/", "a", "u", "t", "h", "/", "c", "a", "l", "l", "b", "a", "c", "k">>
Auth == <<"/", "a", "u", "t", "h">>
NextStatic == <<"/", "_", "n", "e", "x", "t", "/", "s", "t", "a", "t", "i", "c">>
NextImage == <<"/", "_", "n", "e", "x", "t", "/", "i", "m", "a", "g", "e">>
Favicon == <<"/", "f", "a", "v", "i", "c", "o", "n", ".", "i", "c", "o">>
Icons == <<"/", "i", "c", "o", "n", "s">>
IconFile == <<"/", "i", "c", "o", "n", "s", "/", "i", "c", "o", "n", "-", "1", "9", "2", ".", "p", "n", "g">>
Hours == <<"/", "h", "o", "u", "r", "s">>
Pathnames == {Root, Login, LoginReset, TestConnection, AuthCallback, Auth, Favicon,
              IconFile, Hours}

\* how many redirects a browser is followed through
MaxRedirects == 2

\* String.prototype.startsWith
StartsWith(s, prefix) ==
    /\ Len(s) >= Len(prefix)
    /\ SubSeq(s, 1, Len(prefix)) = prefix

\* NextResponse.next() and NextResponse.redirect(url)
PassThrough == [redirect |-> FALSE, pathname |-> <<>>]
Redirect(pathname) == [redirect |-> TRUE, pathname |-> pathname]

\* matcher "/((?!_next/static|_next/image|favicon.ico|icons|auth/callback).*)"
matcher(pathname) ==
    /\ StartsWith(pathname, Root)
    /\ \A x \in {NextStatic, NextImage, Favicon, Icons, AuthCallback} :
          ~StartsWith(pathname, x)

\* matcher "/((?!_next/static|_next/image|favicon.ico|icons).*)"
matcherPublicRoutes(pathname) ==
    /\ StartsWith(pathname, Root)
    /\ \A x \in {NextStatic, NextImage, Favicon, Icons} : ~StartsWith(pathname, x)

\* variant: an error in the middleware sends the user to /login
middlewareFailClosed(req, throws) ==
    IF throws \/ ~(req.url /\ req.key)
    THEN Redirect(Login)
    ELSE IF ~req.session /\ req.pathname # Login
         THEN Redirect(Login)
         ELSE IF req.session /\ req.pathname = Login
              THEN Redirect(Root)
              ELSE PassThrough

\* variant: the signed-out rule does not except /login
middlewareRedirectsLogin(req, throws) ==
    IF throws \/ ~(req.url /\ req.key)
    THEN PassThrough
    ELSE IF ~req.session
         THEN Redirect(Login)
         ELSE IF req.session /\ req.pathname = Login
              THEN Redirect(Root)
              ELSE PassThrough

\* middleware of src/middleware.ts. createMiddlewareClient throws when the
\* URL or the key is missing from the environment, getSession may throw;
\* both are inside the try, whose catch logs and falls through to return res
middleware(req, throws) ==
    IF throws \/ ~(req.url /\ req.key)
    THEN PassThrough
    ELSE IF ~req.session /\ req.pathname # Login
         THEN Redirect(Login)
         ELSE IF req.session /\ req.pathname = Login
              THEN Redirect(Root)
              ELSE PassThrough

publicRoutes == {Login, TestConnection, AuthCallback}
isPublicRoute(pathname) == \E route \in publicRoutes : StartsWith(pathname, route)

\* the middleware with the list of public routes
middlewarePublicRoutes(req, throws) ==
    IF ~req.url \/ ~req.key
    THEN PassThrough
    ELSE IF throws
         THEN PassThrough
         ELSE IF ~req.session /\ ~isPublicRoute(req.pathname)
              THEN Redirect(Login)
              ELSE IF req.session /\ req.pathname = Login
                   THEN Redirect(Root)
                   ELSE PassThrough

trackerVars == <<clock, online, reactState, confirmed, dbState, initPc, taskState, clicks>>

\* a request arrives: which middleware is deployed, what the environment
\* holds and whether the user has a session stay fixed while it is followed
InitMiddleware ==
    /\ clock = 1
    /\ online = TRUE
    /\ entries = <<>>
    /\ previousPeriods = <<>>
    /\ lastResetTime = Null
    /\ totalHours = 0
    /\ totalKilometers = 0
    /\ error = ""
    /\ confirmed = "none"
    /\ dbEntries = {}
    /\ dbPeriods = {}
    /\ dbSync = <<>>
    /\ dbLastReset = Null
    /\ syncPending = 0
    /\ initPc = "entries"
    /\ tasks = [t \in TaskIds |-> Idle]
    /\ pending = <<>>
    /\ clicks = 0
    /\ \E m \in {"middleware", "publicRoutes"}, p \in Pathnames,
          session \in BOOLEAN, url \in BOOLEAN, key \in BOOLEAN :
          request = [middleware |-> m, pathname |-> p, session |-> session,
                     url |-> url, key |-> key, answered |-> FALSE,
                     response |-> PassThrough, redirects |-> 0]

Matches(req) ==
    IF req.middleware = "middleware" THEN matcher(req.pathname)
    ELSE matcherPublicRoutes(req.pathname)

\* the matcher excludes the path: the request is served without the middleware
NotMatched ==
    /\ request.middleware # "none"
    /\ ~request.answered
    /\ ~Matches(request)
    /\ request' = [request EXCEPT !.answered = TRUE, !.response = PassThrough]
    /\ UNCHANGED trackerVars

Middleware(throws) ==
    /\ request.middleware = "middleware"
    /\ ~request.answered
    /\ Matches(request)
    /\ request' = [request EXCEPT !.answered = TRUE,
                                  !.response = middleware(request, throws)]
    /\ UNCHANGED trackerVars

MiddlewarePublicRoutes(throws) ==
    /\ request.middleware = "publicRoutes"
    /\ ~request.answered
    /\ Matches(request)
    /\ request' = [request EXCEPT !.answered = TRUE,
                                  !.response = middlewarePublicRoutes(request, throws)]
    /\ UNCHANGED trackerVars

\* the browser follows the redirect: same cookies, the new pathname
FollowRedirect ==
    /\ request.middleware # "none"
    /\ request.answered
    /\ request.response.redirect
    /\ request.redirects < MaxRedirects
    /\ request' = [request EXCEPT !.answered = FALSE,
                                  !.pathname = request.response.pathname,
                                  !.response = PassThrough,
                                  !.redirects = @ + 1]
    /\ UNCHANGED trackerVars

NextMiddleware ==
    \/ NotMatched
    \/ \E throws \in BOOLEAN : Middleware(throws)
    \/ \E throws \in BOOLEAN : MiddlewarePublicRoutes(throws)
    \/ FollowRedirect

SpecMiddleware == InitMiddleware /\ [][NextMiddleware]_vars

\* ======================================================================
\* Properties
\* ======================================================================
AllIdle == \A t \in TaskIds : tasks[t] = Idle

\* the entries of es that belong to the period opened by `reset`
CurrentIdx(es, reset) ==
    {i \in DOMAIN es : IF reset = Null THEN TRUE ELSE es[i].addedAt > reset}

RECURSIVE SumHoursAt(_, _)
SumHoursAt(es, I) ==
    IF I = {} THEN 0
    ELSE LET i == CHOOSE x \in I : TRUE
         IN  es[i].hoursWorked + SumHoursAt(es, I \ {i})

RECURSIVE SumKmAt(_, _)
SumKmAt(es, I) ==
    IF I = {} THEN 0
    ELSE LET i == CHOOSE x \in I : TRUE
         IN  es[i].kilometers + SumKmAt(es, I \ {i})

\* C1: in every state the displayed totalHours and totalKilometers are the sums
\* of hoursWorked and kilometers over exactly the in-memory entries whose
\* addedAt is strictly after the checkpoint (over all of them while no
\* checkpoint is set).
TotalsAreCurrentPeriodSums ==
    /\ totalHours = SumHoursAt(entries, CurrentIdx(entries, lastResetTime))
    /\ totalKilometers = SumKmAt(entries, CurrentIdx(entries, lastResetTime))

\* an entry archived by the checkpoint next to one added after it
TotalsWitness ==
    /\ lastResetTime # Null
    /\ \E i \in DOMAIN entries : entries[i].addedAt <= lastResetTime
    /\ \E i \in DOMAIN entries : entries[i].addedAt > lastResetTime
    /\ totalHours > 0
    /\ totalHours < SumHoursAt(entries, DOMAIN entries)

\* C2: at most one entry per calendar date, in the in-memory list and in the
\* persisted store.
OneEntryPerDate ==
    /\ \A i, j \in DOMAIN entries :
          i # j => FormatDay(entries[i].date) # FormatDay(entries[j].date)
    /\ \A a, b \in dbEntries :
          a # b => FormatDay(a.date) # FormatDay(b.date)

\* C3: when handleAddEntry finds an entry for the date and its save succeeds,
\* the entry then held in memory and in the store has the id and the addedAt
\* of the entry found, and the submitted date, start, end and location with
\* the hours and kilometers computed from them.
UpsertKeepsIdentity ==
    [][\A t \in TaskIds :
          (SaveEntryDone(t, "ok") /\ tasks[t].existingEntryIndex > 0) =>
              LET old == tasks[t].entries[tasks[t].existingEntryIndex]
                  f == tasks[t].form
                  expected ==
                      [id |-> old.id, addedAt |-> old.addedAt, date |-> f.date,
                       startTime |-> f.startTime, endTime |-> f.endTime,
                       hoursWorked |-> calculateHours(f.startTime, f.endTime),
                       location |-> f.location,
                       kilometers |-> getKilometers(f.location)]
              IN  /\ old.id # Null
                  /\ \E i \in DOMAIN entries' : entries'[i] = expected
                  /\ expected \in dbEntries'
                  /\ Len(entries') = Len(tasks[t].entries)]_vars

\* a save queued after the entry got its id, for an entry added earlier and
\* now carrying the second form's place: an update went through
UpsertWitness ==
    \E k \in DOMAIN dbSync : \E i \in DOMAIN entries :
        /\ dbSync[k].action = "update"
        /\ dbSync[k].id = entries[i].id
        /\ dbSync[k].timestamp > entries[i].id
        /\ entries[i].addedAt < dbSync[k].timestamp
        /\ entries[i].location = Gent50
        /\ entries[i] \in dbEntries

\* no entry in memory that was not there, with the same addedAt, at the click
NothingAddedSince(t) ==
    \A i \in DOMAIN entries : \E j \in DOMAIN tasks[t].entries :
        /\ tasks[t].entries[j].id = entries[i].id
        /\ tasks[t].entries[j].addedAt = entries[i].addedAt

\* C4: when a confirmed reset has saved its checkpoint, and no entry was added
\* since the click, totalHours and totalKilometers are 0; and while that
\* checkpoint stands they leave 0 only in a step that brings into the list an
\* entry that was not in it (none for that day with that addedAt).
ResetThenAggregate ==
    [][/\ \A t \in TaskIds :
             (SaveLastResetTimeDone(t, TRUE) /\ NothingAddedSince(t)) =>
                 (totalHours' = 0 /\ totalKilometers' = 0)
       /\ ( /\ lastResetTime # Null
            /\ lastResetTime' = lastResetTime
            /\ totalHours = 0 /\ totalKilometers = 0
            /\ ~(totalHours' = 0 /\ totalKilometers' = 0) )
          => \E i \in DOMAIN entries' : \A j \in DOMAIN entries :
                 \/ FormatDay(entries[j].date) # FormatDay(entries'[i].date)
                 \/ entries[j].addedAt # entries'[i].addedAt]_vars

\* after a reset that archived a non-empty period
ResetWitness ==
    /\ AllIdle
    /\ lastResetTime # Null
    /\ dbLastReset = lastResetTime
    /\ entries # <<>>
    /\ \E p \in dbPeriods : p.id = lastResetTime /\ p.totalHours > 0
    /\ totalHours = 0
    /\ totalKilometers = 0

\* C5: when savePeriodSummary rejects, the handler ends there: the persisted
\* lastReset setting and the in-memory lastResetTime keep their values and the
\* handler never reaches saveLastResetTime.
SummaryFailureKeepsCheckpoint ==
    [][\A t \in TaskIds :
          SavePeriodSummaryDone(t, FALSE) =>
              /\ tasks'[t] = Idle
              /\ dbLastReset' = dbLastReset
              /\ lastResetTime' = lastResetTime]_vars

\* a reset of a period with hours failed before anything was written
SummaryFailureWitness ==
    /\ AllIdle
    /\ error = ErrReset
    /\ confirmed = "yes"
    /\ totalHours > 0
    /\ dbPeriods = {}
    /\ previousPeriods = <<>>
    /\ dbLastReset = Null
    /\ lastResetTime = Null

\* C6: a reset with hours to report ends with its summary stored and the
\* checkpoint advanced to its reset time, or with neither.
ResetIsTransactional ==
    [][\A t \in TaskIds :
          ( /\ tasks[t].kind = "reset"
            /\ HasHoursToReport(tasks[t].summary.totalHours)
            /\ tasks'[t] = Idle
            /\ clicks' = clicks )
          => (tasks[t].summary \in dbPeriods' <=> dbLastReset' = tasks[t].resetTime)]_vars

\* C7: a reset writes a summary exactly when the current period has hours, and
\* the summary carries the sums of hoursWorked and kilometers over the entries
\* that are in the current period at the click; nothing else adds a summary.
SummaryIffHours ==
    [][/\ HandleResetTotals(TRUE) =>
             LET t == FreeSlot
                 I == CurrentIdx(entries, lastResetTime)
             IN  /\ tasks'[t].pc = "savePeriodSummary" <=> SumHoursAt(entries, I) > 0
                 /\ tasks'[t].pc \in {"savePeriodSummary", "saveLastResetTime"}
                 /\ tasks'[t].summary.totalHours = SumHoursAt(entries, I)
                 /\ tasks'[t].summary.totalKilometers = SumKmAt(entries, I)
       /\ \A t \in TaskIds :
             SavePeriodSummaryDone(t, TRUE) =>
                 /\ tasks[t].summary \in dbPeriods'
                 /\ previousPeriods'[1] = tasks[t].summary
       /\ \A p \in dbPeriods' :
             p \notin dbPeriods =>
                 \E t \in TaskIds :
                     /\ SavePeriodSummaryDone(t, TRUE)
                     /\ p = tasks[t].summary
                     /\ p.totalHours > 0]_vars

\* the summary of a period of two entries, 8.00 h from Brakel and 7.75 h from Gent
SummaryWitness ==
    \E p \in dbPeriods :
        /\ p.totalHours = 1575
        /\ p.totalKilometers = 68
        /\ previousPeriods # <<>>
        /\ previousPeriods[1] = p

\* C8: a confirmed reset of a period without hours goes straight to
\* saveLastResetTime with the time of the click and writes no summary; and a
\* saveLastResetTime that succeeds, after a summary or not, sets the persisted
\* and the in-memory checkpoint to that time and touches no summary.
ZeroHoursResetAdvances ==
    [][/\ (HandleResetTotals(TRUE) /\ totalHours = 0) =>
             /\ tasks'[FreeSlot].pc = "saveLastResetTime"
             /\ tasks'[FreeSlot].resetTime = clock
             /\ UNCHANGED <<dbPeriods, previousPeriods>>
       /\ \A t \in TaskIds :
             SaveLastResetTimeDone(t, TRUE) =>
                 /\ dbLastReset' = tasks[t].resetTime
                 /\ lastResetTime' = tasks[t].resetTime
                 /\ UNCHANGED <<dbPeriods, previousPeriods>>]_vars

\* the first action of the session was a reset: checkpoint set, no summary
ZeroHoursWitness ==
    /\ clicks = 1
    /\ AllIdle
    /\ confirmed = "yes"
    /\ lastResetTime # Null
    /\ dbLastReset = lastResetTime
    /\ dbPeriods = {}
    /\ previousPeriods = <<>>

\* C9: when the prompt is declined, handleResetTotals changes neither entries,
\* summaries, checkpoint nor totals, in memory or in the stores, and starts
\* no work.
DeclinedResetChangesNothing ==
    [][HandleResetTotals(FALSE) =>
          UNCHANGED <<entries, previousPeriods, lastResetTime, totalHours,
                      totalKilometers, dbEntries, dbPeriods, dbSync, dbLastReset,
                      tasks, pending>>]_vars

\* a declined reset of a period that has hours
DeclinedWitness ==
    /\ confirmed = "no"
    /\ AllIdle
    /\ totalHours > 0
    /\ lastResetTime = Null
    /\ dbLastReset = Null
    /\ dbPeriods = {}
    /\ previousPeriods = <<>>

\* C10: handleAddEntry with no date, or with a duration that is not positive,
\* sets the matching error message, writes to no store, leaves the entries in
\* memory alone and starts no save.
InvalidInputWritesNothing ==
    [][\A f \in Forms :
          ( /\ HandleAddEntry(f.date, f.startTime, f.endTime, f.location)
            /\ (f.date = Null \/ calculateHours(f.startTime, f.endTime) <= 0) )
          => /\ error' = IF f.date = Null THEN ErrNoDate ELSE ErrEndTime
             /\ UNCHANGED <<entries, dbEntries, dbSync, dbPeriods, dbLastReset,
                            tasks, pending>>]_vars

\* the end-time message over a list that holds an entry
InvalidInputWitness ==
    /\ error = ErrEndTime
    /\ AllIdle
    /\ entries # <<>>
    /\ DbGetAll(dbEntries) = entries

\* a persistence call of the handler in slot t rejects
PersistenceRejected(t) ==
    \/ \E o \in Outcomes \ {"ok"} : SaveEntryDone(t, o)
    \/ \E o \in Outcomes \ {"ok"} : DeleteEntryDone(t, o)
    \/ SavePeriodSummaryDone(t, FALSE)
    \/ SaveLastResetTimeDone(t, FALSE)
    \/ DeletePeriodDone(t, FALSE)

\* C11: when saveEntry, deleteEntry, savePeriodSummary, saveLastResetTime or
\* deletePeriodSummary rejects, the in-memory entries, period summaries,
\* checkpoint and displayed totals stay as they were, and an error is shown.
FailureLeavesMemory ==
    [][\A t \in TaskIds :
          PersistenceRejected(t) =>
              /\ UNCHANGED <<entries, previousPeriods, lastResetTime, totalHours,
                             totalKilometers>>
              /\ error' \in {ErrSave, ErrDelete, ErrReset, ErrDeletePeriod}]_vars

\* a delete was refused while the entry is listed and stored
FailureWitness ==
    /\ error = ErrDelete
    /\ AllIdle
    /\ Len(entries) = 1
    /\ Cardinality(dbEntries) = 1

\* C12: a stored period summary keeps the startDate, endDate, resetDate,
\* totalHours and totalKilometers it was created with in every step, unless
\* that step is the explicit delete of that summary.
SummariesImmutable ==
    [][\A p \in dbPeriods :
          \/ p \in dbPeriods'
          \/ \E t \in TaskIds : DeletePeriodDone(t, TRUE) /\ tasks[t].id = p.id]_vars

\* the handler in slot t is saving an edit of an entry of a closed period
EditsArchived(t) ==
    /\ tasks[t].kind = "add"
    /\ tasks[t].existingEntryIndex > 0
    /\ lastResetTime # Null
    /\ tasks[t].entries[tasks[t].existingEntryIndex].addedAt <= lastResetTime

\* C13: when handleAddEntry has updated an entry whose addedAt is at or before
\* the checkpoint, the updated entry is still outside the current period, and
\* (the list being the one the handler started from) totalHours and
\* totalKilometers are what they were before the edit.
ArchivedEditStaysArchived ==
    [][\A t \in TaskIds :
          (EditsArchived(t) /\ SaveEntryDone(t, "ok")) =>
              /\ \E i \in DOMAIN entries' :
                     /\ entries'[i].id = tasks[t].entry.id
                     /\ entries'[i].hoursWorked = tasks[t].entry.hoursWorked
                     /\ entries'[i].addedAt <= lastResetTime'
                     /\ i \notin CurrentIdx(entries', lastResetTime')
              /\ tasks[t].entries = entries =>
                     UNCHANGED <<totalHours, totalKilometers>>]_vars

\* an edit that changes the hours of an archived entry is about to be written
\* back into the list it was started from
ArchivedEditWitness ==
    \E t \in TaskIds :
        /\ EditsArchived(t)
        /\ CanSettle(t)
        /\ tasks[t].entries = entries
        /\ tasks[t].entry.hoursWorked #
               entries[tasks[t].existingEntryIndex].hoursWorked

\* C14: the save of a newly created entry gives it an id that no other stored
\* entry has: every record of the entries store is still there, as it was,
\* after the save.
NewEntryOverwritesNothing ==
    [][\A t \in TaskIds :
          (/\ tasks[t].kind = "add"
           /\ tasks[t].existingEntryIndex = 0
           /\ \E o \in Outcomes \ {"reject"} : SaveEntryDone(t, o)) =>
              \A r \in dbEntries : r \in dbEntries']_vars

\* C15: a saveEntry or deleteEntry that succeeds while navigator.onLine is
\* false leaves one more item in the sync queue (for syncData to process when
\* the next online event fires).
OfflineWriteIsQueued ==
    [][\A t \in TaskIds :
          (~online /\ (SaveEntryDone(t, "ok") \/ DeleteEntryDone(t, "ok"))) =>
              Len(dbSync') = Len(dbSync) + 1]_vars

\* a step of the add/update or delete handler of an entry
EntryHandlerStep ==
    \/ \E f \in Forms : HandleAddEntry(f.date, f.startTime, f.endTime, f.location)
    \/ \E i \in 1..(MaxEntries + MaxTasks) : HandleDeleteEntry(i)
    \/ \E t \in TaskIds, o \in Outcomes : SaveEntryDone(t, o) \/ DeleteEntryDone(t, o)

\* a step of the delete handler of a summary
PeriodDeleteStep ==
    \/ \E i \in 1..MaxPeriods, a \in BOOLEAN : HandleDeletePeriod(i, a)
    \/ \E t \in TaskIds, ok \in BOOLEAN : DeletePeriodDone(t, ok)

\* C16: adding, updating or deleting an entry leaves the period summaries and
\* the checkpoint as they are; deleting a summary leaves the entries and the
\* checkpoint as they are; a summary is stored, and the stored checkpoint
\* changed, only by a reset; a checkpoint once stored is never unset, and the
\* one in memory is unset only by mounting the page anew.
OnlyResetTouchesPeriods ==
    [][/\ EntryHandlerStep =>
              UNCHANGED <<previousPeriods, dbPeriods, lastResetTime, dbLastReset>>
       /\ PeriodDeleteStep =>
              UNCHANGED <<entries, dbEntries, lastResetTime, dbLastReset>>
       /\ ~(dbPeriods' \subseteq dbPeriods) =>
              \E t \in TaskIds : SavePeriodSummaryDone(t, TRUE)
       /\ dbLastReset' # dbLastReset =>
              \E t \in TaskIds : SaveLastResetTimeDone(t, TRUE)
       /\ dbLastReset # Null => dbLastReset' # Null
       /\ (lastResetTime # Null /\ lastResetTime' = Null) => Reload]_vars

\* after a reset that wrote a summary, an entry was added to the new period:
\* the summary and the checkpoint are still there
OnlyResetWitness ==
    /\ AllIdle
    /\ dbLastReset # Null
    /\ lastResetTime = dbLastReset
    /\ \E p \in dbPeriods : p.totalHours > 0 /\ p.id = dbLastReset
    /\ \E i \in DOMAIN entries : entries[i].addedAt > lastResetTime

\* minutes since midnight of a wall-clock time
MinutesOfDay(t) == (10 * t[1] + t[2]) * 60 + 10 * t[3] + t[4]

\* r hundredths is x / 60 rounded to two decimals: 100 * x / 60 = 10 * x / 6
\* is never halfway between two hundredths, so r is within 1/3 of it
IsRounded(r, x) == 6 * r - 10 * x \in -2..2

Evaluated(t) == tasks[t].pc \in {"findIndex", "returned", "built"}

\* C17: for start and end times HH:MM with HH in 0..23, calculateHours gives
\* the signed difference end - start in minutes, divided by 60 and rounded to
\* two decimals: negative when end is earlier than start, zero when they are
\* equal, positive otherwise; 09:00-17:00 gives 8.00, 09:15-17:00 gives 7.75.
CalculateHoursIsSignedDifference ==
    \A t \in TaskIds :
        Evaluated(t) =>
            LET f == tasks[t].form
                r == tasks[t].entry.hoursWorked
                x == MinutesOfDay(f.endTime) - MinutesOfDay(f.startTime)
            IN  /\ IsRounded(r, x)
                /\ (r < 0) = (x < 0)
                /\ (r = 0) = (x = 0)
                /\ (f.startTime = T0900 /\ f.endTime = T1700) => r = 800
                /\ (f.startTime = T0915 /\ f.endTime = T1700) => r = 775

\* 23:59 to 00:00 was evaluated: one minute less than a day, backwards
CalculateHoursWitness ==
    \E t \in TaskIds :
        /\ tasks[t].pc = "returned"
        /\ tasks[t].form.startTime = TimeOf(MaxHour, MaxMinute)
        /\ tasks[t].form.endTime = TimeOf(0, 0)
        /\ tasks[t].entry.hoursWorked = 0 - 2398
        /\ error = ErrEndTime

\* C18: the summary a reset builds when there are hours to report has as
\* startDate the formatted date of the current-period entry with the least
\* date and as endDate that of the one with the greatest date, neither being
\* the "No entries" label; and that summary is the one stored.
SummaryBoundaries ==
    [][/\ \A t \in TaskIds :
              (HandleResetTotals(TRUE) /\ tasks[t] = Idle /\ tasks'[t].kind = "reset"
                  /\ totalHours > 0) =>
                  LET I == CurrentIdx(entries, lastResetTime)
                      sm == tasks'[t].summary
                  IN  /\ I # {}
                      /\ \E i \in I :
                             /\ sm.startDate = FormatDay(entries[i].date)
                             /\ \A j \in I : entries[i].date <= entries[j].date
                      /\ \E i \in I :
                             /\ sm.endDate = FormatDay(entries[i].date)
                             /\ \A j \in I : entries[i].date >= entries[j].date
                      /\ sm.startDate # NoEntries
                      /\ sm.endDate # NoEntries
       /\ \A t \in TaskIds :
              SavePeriodSummaryDone(t, TRUE) =>
                  /\ tasks[t].summary \in dbPeriods'
                  /\ tasks[t].summary.startDate # NoEntries]_vars

\* a stored summary of a period that spans two days
SummaryBoundariesWitness ==
    \E p \in dbPeriods :
        /\ p.startDate = Today
        /\ p.endDate = Today + 1
        /\ p.totalHours = 1575

\* the label has the letters B r a k e l, in these cases, next to one another
HasBrakel(l) ==
    \E i \in 1..Len(l), j \in 1..Len(l) :
        SubSeq(l, i, j) = <<"B", "r", "a", "k", "e", "l">>

ResolvedFrom(l) == IF HasBrakel(l) THEN 18 ELSE 50

\* C19: getKilometers gives 18 for a label that contains "Brakel" (in this
\* case of the letters) and 50 for any other; the entry built for an add or an
\* update carries the form's location and the kilometers resolved from it, as
\* does every entry listed or stored.
KilometersFollowLocation ==
    /\ \A t \in TaskIds :
          /\ Evaluated(t) =>
                 tasks[t].entry.kilometers = ResolvedFrom(tasks[t].form.location)
          /\ tasks[t].pc = "built" =>
                 /\ tasks[t].entry.location = tasks[t].form.location
                 /\ tasks[t].entry.kilometers = ResolvedFrom(tasks[t].entry.location)
          /\ (Evaluated(t) /\ tasks[t].form.location \in {Brakel18, BrakelOther}) =>
                 tasks[t].entry.kilometers = 18
          /\ (Evaluated(t) /\ tasks[t].form.location \in {Gent50, LowerBrakel}) =>
                 tasks[t].entry.kilometers = 50
    /\ \A i \in DOMAIN entries : entries[i].kilometers = ResolvedFrom(entries[i].location)
    /\ \A e \in dbEntries : e.kilometers = ResolvedFrom(e.location)

\* the entry stored for Brakel was updated with the label "brakel": 50 km
KilometersWitness ==
    \E t \in TaskIds :
        /\ tasks[t].pc = "built"
        /\ tasks[t].existingEntryIndex = 1
        /\ tasks[t].entries[1].kilometers = 18
        /\ tasks[t].entry.id = Earlier
        /\ tasks[t].entry.location = LowerBrakel
        /\ tasks[t].entry.kilometers = 50

RECURSIVE SumPeriodHours(_)
SumPeriodHours(ps) ==
    IF ps = <<>> THEN 0 ELSE ps[1].totalHours + SumPeriodHours(Tail(ps))

RECURSIVE SumPeriodKm(_)
SumPeriodKm(ps) ==
    IF ps = <<>> THEN 0 ELSE ps[1].totalKilometers + SumPeriodKm(Tail(ps))

\* the hours and kilometers of all entries es are those of the summaries ps
\* plus the totals of the current period
Accounted(es, ps, hours, km) ==
    /\ SumHoursAt(es, DOMAIN es) = SumPeriodHours(ps) + hours
    /\ SumKmAt(es, DOMAIN es) = SumPeriodKm(ps) + km

\* C20: a successful addition of an entry for a new date, and a confirmed
\* successful reset, keep the books balanced: if all hours and kilometers
\* were accounted for before it (by the summaries plus the current totals),
\* they are after it.
NoHoursDropped ==
    [][\A t \in TaskIds :
          /\ (/\ tasks[t].kind = "add"
               /\ tasks[t].existingEntryIndex = 0
               /\ SaveEntryDone(t, "ok")
               /\ Accounted(entries, previousPeriods, totalHours, totalKilometers)) =>
                  Accounted(entries', previousPeriods', totalHours', totalKilometers')
          /\ (/\ SaveLastResetTimeDone(t, TRUE)
               /\ Accounted(entries,
                            IF HasHoursToReport(tasks[t].summary.totalHours)
                            THEN Tail(previousPeriods) ELSE previousPeriods,
                            totalHours, totalKilometers)) =>
                  Accounted(entries', previousPeriods', totalHours', totalKilometers')]_vars

\* C21: when the save of a newly created entry has succeeded, the entry is
\* listed and belongs to the current period: there is no checkpoint, or its
\* addedAt is strictly after the checkpoint in force.
NewEntryIsCurrent ==
    [][\A t \in TaskIds :
          (/\ tasks[t].kind = "add"
           /\ tasks[t].existingEntryIndex = 0
           /\ SaveEntryDone(t, "ok")) =>
              \E i \in CurrentIdx(entries', lastResetTime') :
                  /\ entries'[i].addedAt = tasks[t].entry.addedAt
                  /\ entries'[i].date = tasks[t].entry.date]_vars

\* C22: the state update of a handler that has completed loses no change made
\* by another: an entry that is listed and is still in the entries store after
\* the step is still listed after it.
NoListedEntryLost ==
    [][\A t \in TaskIds :
          (SaveEntryDone(t, "ok") \/ DeleteEntryDone(t, "ok")) =>
              \A i \in DOMAIN entries :
                  entries[i] \in dbEntries' =>
                      \E j \in DOMAIN entries' : entries'[j] = entries[i]]_vars

\* C23: whenever the initial load is done and no handler is in flight, the
\* entries listed in memory are the records of the entries store, with the
\* same ids and field values.
MemoryMatchesStore ==
    (AllIdle /\ initPc = "done") =>
        {entries[i] : i \in DOMAIN entries} = dbEntries

\* C24: items leave the sync queue only in a syncData pass, and a pass is
\* started only by a call made while online (a call made while offline
\* returns at once and removes nothing); and whenever an item is in the
\* queue, either the queue is eventually emptied or the application goes
\* offline.
QueueIsDrained ==
    /\ [][/\ Len(dbSync') < Len(dbSync) => SyncData
          /\ syncPending' > syncPending => (online' /\ (online \/ GoOnline))]_vars
    /\ [](dbSync # <<>> => <>(dbSync = <<>> \/ ~online))

\* C25: the sync item queued by a successful save made online has action
\* "add" when the entry passed to saveEntry had no id (a newly created
\* entry) and "update" when it already had one.
SyncActionFollowsId ==
    [][\A t \in TaskIds :
          (online /\ SaveEntryDone(t, "ok")) =>
              /\ Len(dbSync') = Len(dbSync) + 1
              /\ dbSync'[Len(dbSync')].action =
                     IF tasks[t].entry.id = Null THEN "add" ELSE "update"]_vars

\* the middleware ran on the request and nothing failed in it
Answers ==
    /\ request.url
    /\ request.key
    /\ Middleware(FALSE) \/ MiddlewarePublicRoutes(FALSE)

\* C26: a request without a session that the middleware answers is
\* redirected to /login if and only if its path starts with none of the
\* public route prefixes /login, /test-connection and /auth/callback;
\* otherwise it passes through.
RedirectIffNotPublic ==
    [][(Answers /\ ~request.session) =>
          /\ ~isPublicRoute(request.pathname) => request'.response = Redirect(Login)
          /\ isPublicRoute(request.pathname) => request'.response = PassThrough]_vars

\* C27: whatever the path and the session status, a response that follows a
\* redirect is a pass-through: no chain of redirects is longer than one.
NoRedirectLoop ==
    (request.middleware # "none" /\ request.answered /\ request.response.redirect) =>
        request.redirects = 0

\* a signed-out user was sent from a protected path to /login and /login
\* passed; a signed-in one would have gone from /login to /
OneRedirectWitness ==
    /\ request.middleware # "none"
    /\ request.url
    /\ request.key
    /\ ~request.session
    /\ request.redirects = 1
    /\ request.pathname = Login
    /\ request.answered
    /\ request.response = PassThrough

\* C28: when the URL or the key is missing from the environment, or the
\* session check throws, the middleware returns the pass-through response
\* whatever the path.
FailsOpen ==
    [][\A throws \in BOOLEAN :
          (/\ Middleware(throws) \/ MiddlewarePublicRoutes(throws)
           /\ throws \/ ~request.url \/ ~request.key) =>
              request'.response = PassThrough]_vars

\* a request without a session for a protected path, no key in the
\* environment: the middleware ran and let it through
FailsOpenWitness ==
    /\ request.middleware = "middleware"
    /\ request.url
    /\ ~request.key
    /\ ~request.session
    /\ request.pathname = Hours
    /\ request.redirects = 0
    /\ request.answered
    /\ request.response = PassThrough

====
